---- MODULE Spec2Model ----
(***************************************************************************)
(* Model of the `motion` Svelte action of bojurgess/svelte-ui.             *)
(*                                                                         *)
(*   src/src/lib/motion.ts   the action with variants and propagation to   *)
(*                           marked children / grandchildren  (impl "lib") *)
(*   src/unnamed/part_000    the action without variants      (impl "p0")  *)
(*                                                                         *)
(* JavaScript values are represented as follows.                           *)
(*   number            an integer, or NaN (a sentinel outside the range    *)
(*                     of every number the model computes)                 *)
(*   undefined         Undefined, a record with the one field "undefined"  *)
(*   object            a record; an optional property that is not set is   *)
(*                     absent from the record's DOMAIN                     *)
(*   string (animate)  [name |-> s]                                        *)
(*   attribute value   <<>> for null, <<text>> for a string, where text is *)
(*                     the JSON text as a sequence of <<key, number>>      *)
(*   array             a sequence, JS index i at position i + 1, Hole for  *)
(*                     a slot that was never assigned                      *)
(***************************************************************************)
EXTENDS Integers, Sequences, FiniteSets, TLC

VARIABLES
    pc,               \* "unattached" | "attached" | "threw" | "destroyed"
    impl,             \* which file's action was attached: "none" | "lib" | "p0"
    node,             \* the element the action was attached to (a DOM tree)
    props,            \* the props object as the caller passed it to the action
    created,          \* every store made by spring()/tweened(), in creation order
    animationStores,  \* the animationStores array: index of a created store, or Hole
    unsubscribers,    \* the unsubscribers array: index of the store it unsubscribes, or Hole
    style,            \* node path -> what the last subscriber callback wrote to node.style
    fired,            \* indices of the stores whose subscriber callback ran in the latest step
    newProps,         \* the argument of the latest update call, Undefined before the first
    nUpdates,         \* how many update calls the handle has received
    error             \* the exception the action threw to its caller, or NoError

vars == <<pc, impl, node, props, created, animationStores, unsubscribers, style, fired,
         newProps, nUpdates, error>>

----------------------------------------------------------------------------
(* JavaScript values *)

NaN == 9999
Undefined == [undefined |-> TRUE]
Hole == 0
NoError == "none"
IncorrectTransitionType == "Incorrect Transition Type!"
TypeError == "TypeError"

Fields == {"x", "y", "opacity", "scale", "rotate"}

IsNaN(a) == a = NaN

\* a - b on JS numbers; an operand that is undefined or NaN gives NaN
Minus(obj, f, b) ==
    IF f \notin DOMAIN obj THEN NaN
    ELSE IF IsNaN(obj[f]) \/ IsNaN(b) THEN NaN
    ELSE obj[f] - b

\* typeof a === 'string'
IsString(a) == "name" \in DOMAIN a

\* !v for a property that may be unset: undefined and '' are falsy
Falsy(obj, f) == obj = Undefined \/ f \notin DOMAIN obj \/ obj[f] = ""

\* obj?.type === s
TypeIs(obj, s) == obj # Undefined /\ "type" \in DOMAIN obj /\ obj.type = s

----------------------------------------------------------------------------
(* Inputs *)

\* props.variants
Variants ==
    [ rest  |-> [x |-> 1, y |-> 1, scale |-> 1, transition |-> [type |-> "spring"]],
      shift |-> [x |-> 2, transition |-> [type |-> "tween"]],
      grow  |-> [scale |-> 3, rotate |-> 1, transition |-> [delay |-> 0]] ]

\* props.animate: a variant name (one of them not in the table) or a literal
AnimateArgs ==
    { [name |-> "rest"], [name |-> "shift"], [name |-> "grow"], [name |-> "missing"],
      [x |-> 1, y |-> 1], [x |-> 2], [scale |-> 3, rotate |-> 1] }

\* props.transition
TransitionArgs ==
    { Undefined, [stiffness |-> 1], [type |-> "spring"], [type |-> "tween"],
      [type |-> "bogus"], [type |-> ""] }

\* data-motion-variant attribute values
NoAttr == <<>>
AttrFull == << << <<"x", 1>>, <<"scale", 2>>, <<"rotate", 1>> >> >>
AttrNoRotate == << << <<"y", 1>>, <<"scale", 2>> >> >>
AttrNoScale == << << <<"x", 1>>, <<"rotate", 1>> >> >>

El(attr, children) == [attr |-> attr, children |-> children]

\* the elements the action is attached to
Trees ==
    { El(NoAttr, <<>>),
      El(NoAttr, <<El(AttrFull, <<>>), El(NoAttr, <<>>)>>),
      El(NoAttr, <<El(NoAttr, <<El(AttrFull, <<>>)>>)>>),
      El(NoAttr, <<El(AttrFull, <<El(AttrFull, <<>>), El(AttrNoRotate, <<>>)>>)>>),
      El(NoAttr, <<El(AttrFull, <<El(AttrFull, <<El(AttrFull, <<>>)>>)>>)>>),
      El(NoAttr, <<El(NoAttr, <<El(NoAttr, <<El(AttrFull, <<>>)>>)>>), El(AttrFull, <<>>)>>),
      El(NoAttr, <<El(AttrNoScale, <<>>)>>) }

----------------------------------------------------------------------------
(* Stores (svelte/motion spring and tweened) *)

\* the initial value both handleSpring and handleTween give their store
Defaults == [x |-> 0, y |-> 0, opacity |-> 1, scale |-> 1, rotate |-> 0]

\* mutant: the new target replaces the old one, omitted fields fall back to the defaults
Merge_replace(animate, updated) ==
    [f \in {"x", "y", "opacity", "scale", "rotate"} |->
        IF animate # Undefined /\ f \in DOMAIN animate
        THEN animate[f]
        ELSE [x |-> 0, y |-> 0, opacity |-> 1, scale |-> 1, rotate |-> 0][f]]

\* the callback given to store.update: animate?.f ?? updated.f for each field.
\* svelte/motion calls it with the store's target value.
Merge(animate, updated) ==
    [f \in Fields |->
        IF animate # Undefined /\ f \in DOMAIN animate THEN animate[f] ELSE updated[f]]

\* props.variants[name]
Lookup(name) == IF name \in DOMAIN Variants THEN Variants[name] ELSE Undefined

\* if (typeof props.animate === 'string') props.animate = props.variants[props.animate]
Resolve(p) ==
    IF IsString(p.animate) THEN [p EXCEPT !.animate = Lookup(p.animate.name)] ELSE p

Returned(kind, animate) ==
    [ok |-> TRUE,
     store |-> [kind |-> kind, value |-> Defaults, target |-> Merge(animate, Defaults)]]

Thrown(e) == [ok |-> FALSE, error |-> e]

handleTween(p) ==
    LET q == Resolve(p) IN
    IF q.transition # Undefined /\ TypeIs(q.transition, "tween")
    THEN Returned("tween", q.animate)
    ELSE Thrown(IncorrectTransitionType)

handleSpring(p) ==
    LET q == Resolve(p) IN
    IF (q.transition # Undefined /\ TypeIs(q.transition, "spring"))
       \/ Falsy(q.transition, "type")
    THEN Returned("spring", q.animate)
    ELSE Thrown(IncorrectTransitionType)

\* part_000: no variants; a transition without a type is not accepted
handleTween_p0(p) ==
    IF p.transition # Undefined /\ TypeIs(p.transition, "tween")
    THEN Returned("tween", p.animate)
    ELSE Thrown(IncorrectTransitionType)

handleSpring_p0(p) ==
    IF (p.transition # Undefined /\ TypeIs(p.transition, "spring"))
       \/ p.transition = Undefined
    THEN Returned("spring", p.animate)
    ELSE Thrown(IncorrectTransitionType)

\* what the subscriber callback writes to node.style:
\* translate(x px, y px) scale(scale ?? 1) rotate(rotate ?? 0 deg), and opacity ?? 1
Written(path, v) ==
    [node |-> path,
     transform |-> [translate |-> <<v.x, v.y>>, scale |-> v.scale, rotate |-> v.rotate],
     opacity |-> v.opacity]

WriteStyle(st, path, v) == {w \in st : w.node # path} \cup {Written(path, v)}

\* stores[i] = handleX(...); unsubscribers[i] = stores[i].subscribe(callback):
\* subscribe runs the callback once with the store's current value
subscribe(s, i, store, path) ==
    LET k == Len(s.created) + 1 IN
    [s EXCEPT
        !.created = Append(@, [node |-> path, kind |-> store.kind, value |-> store.value,
                               target |-> store.target, subscribed |-> TRUE]),
        !.animationStores = [@ EXCEPT ![i + 1] = k],
        !.unsubscribers = [@ EXCEPT ![i + 1] = k],
        !.style = WriteStyle(@, path, store.value)]

----------------------------------------------------------------------------
(* Children *)

RECURSIVE NodeAt(_, _)
NodeAt(nd, path) ==
    IF path = <<>> THEN nd ELSE NodeAt(nd.children[Head(path)], Tail(path))

\* JSON.parse of the attribute text: an object with the text's keys
JSONParse(text) ==
    [k \in {text[n][1] : n \in DOMAIN text} |->
        LET last == CHOOSE n \in DOMAIN text :
                        /\ text[n][1] = k
                        /\ \A m \in DOMAIN text : text[m][1] = k => m <= n
        IN text[last][2]]

\* mutant: the root's scale is subtracted also when it is 1
compensate_noSpecialCase(variant, animate) ==
    LET c == IF "scale" \notin DOMAIN animate THEN 0 ELSE animate.scale
        r == IF "rotate" \notin DOMAIN animate THEN 0 ELSE animate.rotate
    IN [f \in DOMAIN variant \cup {"scale", "rotate"} |->
            IF f = "scale" THEN Minus(variant, "scale", c)
            ELSE IF f = "rotate" THEN Minus(variant, "rotate", r)
            ELSE variant[f]]

\* the object spread of handleChild: the marker with scale and rotate replaced
compensate(variant, animate) ==
    LET c == IF "scale" \notin DOMAIN animate THEN 0
             ELSE IF animate.scale = 1 THEN 0 ELSE animate.scale
        r == IF "rotate" \notin DOMAIN animate THEN 0 ELSE animate.rotate
    IN [f \in DOMAIN variant \cup {"scale", "rotate"} |->
            IF f = "scale" THEN Minus(variant, "scale", c)
            ELSE IF f = "rotate" THEN Minus(variant, "rotate", r)
            ELSE variant[f]]

handleChild(s, path, child, p, i) ==
    IF IsString(p.animate) \/ child.attr = NoAttr THEN s
    ELSE IF p.animate = Undefined THEN [s EXCEPT !.error = TypeError]
    ELSE LET variant == compensate(JSONParse(child.attr[1]), p.animate)
             q == [p EXCEPT !.animate = variant]
             r == IF TypeIs(p.transition, "tween") THEN handleTween(q) ELSE handleSpring(q)
         IN IF r.ok THEN subscribe(s, i, r.store, path)
            ELSE [s EXCEPT !.error = r.error]

\* the calls of handleChild the two loops of motion make, in order: <<path, i>>
RECURSIVE handleChildCallsFrom(_, _)
handleChildCallsFrom(nd, i) ==
    IF i > Len(nd.children) THEN <<>>
    ELSE <<  <<  <<i>>, i  >>  >>
         \o [j \in 1..Len(nd.children[i].children) |-> << <<i, j>>, i >>]
         \o handleChildCallsFrom(nd, i + 1)

\* mutant: the inner loop over the child's own children is missing
handleChildCalls_directOnly(nd) == [i \in 1..Len(nd.children) |-> << <<i>>, i >>]

handleChildCalls(nd) == handleChildCallsFrom(nd, 1)

\* an exception ends the loops
RECURSIVE RunCalls(_, _, _, _)
RunCalls(s, calls, nd, p) ==
    IF calls = <<>> \/ s.error # NoError THEN s
    ELSE LET c == Head(calls) IN
         RunCalls(handleChild(s, c[1], NodeAt(nd, c[1]), p, c[2]), Tail(calls), nd, p)

----------------------------------------------------------------------------
(* motion(node, props) of src/lib/motion.ts *)

\* mutant: the children are animated whatever the target is
isVariant_always(animate) == TRUE

isVariant(animate) == IsString(animate)

motionBody(nd, p) ==
    LET n  == IF isVariant(p.animate) THEN Len(nd.children) + 1 ELSE 1
        q  == Resolve(p)
        s0 == [created |-> <<>>, animationStores |-> [k \in 1..n |-> Hole],
               unsubscribers |-> [k \in 1..n |-> Hole], style |-> {}, error |-> NoError]
        r  == IF TypeIs(p.transition, "tween") THEN handleTween(q) ELSE handleSpring(q)
    IN IF ~r.ok THEN [s0 EXCEPT !.error = r.error]
       ELSE LET s1 == subscribe(s0, 0, r.store, <<>>) IN
            IF isVariant(p.animate) THEN RunCalls(s1, handleChildCalls(nd), nd, q) ELSE s1

\* motion(node, props) of part_000: the root store only
motionBody_p0(nd, p) ==
    LET s0 == [created |-> <<>>, animationStores |-> <<Hole>>, unsubscribers |-> <<Hole>>,
               style |-> {}, error |-> NoError]
        r  == IF TypeIs(p.transition, "tween") THEN handleTween_p0(p) ELSE handleSpring_p0(p)
    IN IF ~r.ok THEN [s0 EXCEPT !.error = r.error]
       ELSE subscribe(s0, 0, r.store, <<>>)

Attach(which, nd, p, s) ==
    /\ pc = "unattached"
    /\ impl' = which
    /\ node' = nd
    /\ props' = p
    /\ created' = s.created
    /\ animationStores' = s.animationStores
    /\ unsubscribers' = s.unsubscribers
    /\ style' = s.style
    /\ error' = s.error
    /\ fired' = 1..Len(s.created)
    /\ newProps' = Undefined
    /\ nUpdates' = 0
    /\ pc' = IF s.error = NoError THEN "attached" ELSE "threw"

motion ==
    \E nd \in Trees, a \in AnimateArgs, t \in TransitionArgs :
        LET p == [animate |-> a, transition |-> t] IN
        Attach("lib", nd, p, motionBody(nd, p))

motion_p0 ==
    \E nd \in Trees, a \in {b \in AnimateArgs : ~IsString(b)}, t \in TransitionArgs :
        LET p == [animate |-> a, transition |-> t] IN
        Attach("p0", nd, p, motionBody_p0(nd, p))

----------------------------------------------------------------------------
(* update(newProps) and destroy() *)

\* update calls explored per attachment
MaxUpdates == 2

\* mutant: update retargets the root for a literal too
retargets_always(animate) == TRUE

\* if (typeof newProps.animate === 'string')
retargets(animate) == IsString(animate)

\* animationStores[0].update(callback)
update ==
    /\ pc = "attached"
    /\ impl = "lib"
    /\ nUpdates < MaxUpdates
    /\ nUpdates' = nUpdates + 1
    /\ \E a \in AnimateArgs :
        /\ newProps' = [animate |-> a]
        /\ created' = IF retargets(a)
                      THEN LET q == Resolve([animate |-> a]) IN
                           [created EXCEPT ![animationStores[1]].target = Merge(q.animate, @)]
                      ELSE created
    /\ fired' = {}
    /\ UNCHANGED <<pc, impl, node, props, animationStores, unsubscribers, style, error>>

\* part_000: values.update(callback) for every newProps
update_p0 ==
    /\ pc = "attached"
    /\ impl = "p0"
    /\ nUpdates < MaxUpdates
    /\ nUpdates' = nUpdates + 1
    /\ \E a \in {b \in AnimateArgs : ~IsString(b)} :
        /\ newProps' = [animate |-> a]
        /\ created' = [created EXCEPT ![animationStores[1]].target = Merge(a, @)]
    /\ fired' = {}
    /\ UNCHANGED <<pc, impl, node, props, animationStores, unsubscribers, style, error>>

\* unsubscribers.forEach(unsubscriber => unsubscriber()): forEach skips the holes
Unsubscribed(stores, unsubs) ==
    [k \in DOMAIN stores |->
        IF \E i \in DOMAIN unsubs : unsubs[i] = k
        THEN [stores[k] EXCEPT !.subscribed = FALSE]
        ELSE stores[k]]

destroy ==
    /\ pc = "attached"
    /\ impl = "lib"
    /\ created' = Unsubscribed(created, unsubscribers)
    /\ pc' = "destroyed"
    /\ fired' = {}
    /\ UNCHANGED <<impl, node, props, animationStores, unsubscribers, style, newProps, nUpdates, error>>

\* part_000: unsubscribe()
destroy_p0 ==
    /\ pc = "attached"
    /\ impl = "p0"
    /\ created' = Unsubscribed(created, unsubscribers)
    /\ pc' = "destroyed"
    /\ fired' = {}
    /\ UNCHANGED <<impl, node, props, animationStores, unsubscribers, style, newProps, nUpdates, error>>

----------------------------------------------------------------------------
(* The scheduler: one animation frame *)

\* a store has a frame task while it has not settled at its target; a spring whose
\* target is NaN never passes the precision test, a tween ends when its time is up
Moving(st) ==
    \E f \in Fields :
        \/ st.value[f] # st.target[f]
        \/ st.kind = "spring" /\ IsNaN(st.target[f])

\* one frame of motion toward the target
Advance(v, t) ==
    IF IsNaN(t) \/ IsNaN(v) THEN NaN
    ELSE IF v < t THEN v + 1
    ELSE IF v > t THEN v - 1
    ELSE v

\* every store with a frame task sets its next value; a store that still has its
\* subscriber runs the callback, which writes the node's style
Tick ==
    /\ pc # "unattached"
    /\ \E k \in DOMAIN created : Moving(created[k])
    /\ created' = [k \in DOMAIN created |->
                      IF Moving(created[k])
                      THEN [created[k] EXCEPT
                               !.value = [f \in Fields |-> Advance(@[f], created[k].target[f])]]
                      ELSE created[k]]
    /\ fired' = {k \in DOMAIN created : Moving(created[k]) /\ created[k].subscribed}
    /\ style' = {w \in style : \A k \in fired' : created[k].node # w.node}
                \cup {Written(created'[k].node, created'[k].value) : k \in fired'}
    /\ UNCHANGED <<pc, impl, node, props, animationStores, unsubscribers, newProps, nUpdates, error>>

----------------------------------------------------------------------------

Init ==
    /\ pc = "unattached"
    /\ impl = "none"
    /\ node = El(NoAttr, <<>>)
    /\ props = Undefined
    /\ created = <<>>
    /\ animationStores = <<>>
    /\ unsubscribers = <<>>
    /\ style = {}
    /\ fired = {}
    /\ newProps = Undefined
    /\ nUpdates = 0
    /\ error = NoError

Next ==
    \/ motion_p0
    \/ update_p0
    \/ destroy_p0
    \/ motion
    \/ update
    \/ destroy
    \/ Tick

Spec == Init /\ [][Next]_vars

----------------------------------------------------------------------------
(* Vocabulary of the properties *)

UnknownVariant == "UnknownVariant"
InvalidTransitionKind == IncorrectTransitionType

\* motion returned its handle to the caller
HandleReturned == pc \in {"attached", "destroyed"}

RECURSIVE AllPaths(_)
AllPaths(nd) ==
    {<<>>} \cup UNION {{<<i>> \o q : q \in AllPaths(nd.children[i])} : i \in DOMAIN nd.children}

Marked(nd, path) == NodeAt(nd, path).attr # NoAttr

\* the marked nodes one or two levels below the root
MarkedNear(nd) == {q \in AllPaths(nd) : Len(q) \in {1, 2} /\ Marked(nd, q)}

\* the marker record of a marked node
MarkerOf(nd, path) == JSONParse(NodeAt(nd, path).attr[1])

NamesVariant(a) == IsString(a) /\ a.name \in DOMAIN Variants
NamesUnknown(a) == IsString(a) /\ a.name \notin DOMAIN Variants

\* the partial state a target stands for, when it stands for one
TargetOf(a) == IF IsString(a) THEN Variants[a.name] ELSE a

Descendants == {k \in DOMAIN created : k > 1}

----------------------------------------------------------------------------
\* C1: after destroy, no subscriber callback of any store this attachment created
\* (root, marked children, marked grandchildren) runs on a later scheduler tick.
C1_NoCallbackAfterDestroy ==
    (impl = "lib" /\ pc = "destroyed") => fired = {}

\* C2: a variant name that is not in the variant table makes the call raise
\* UnknownVariant: attach raises before any store is created or style written,
\* update raises instead of leaving the root target as it was.
C2_UnknownVariantRaised ==
    /\ (impl = "lib" /\ NamesUnknown(props.animate)) =>
            (pc = "threw" /\ error = UnknownVariant /\ created = <<>> /\ style = {})
    /\ (impl = "lib" /\ newProps # Undefined /\ NamesUnknown(newProps.animate)) =>
            error = UnknownVariant

\* C3: the root store is made with props.transition if present, else with the
\* resolved variant's own transition if it carries one, else as a spring.
C3_ClaimedTransition ==
    IF props.transition # Undefined THEN props.transition
    ELSE IF NamesVariant(props.animate) /\ "transition" \in DOMAIN TargetOf(props.animate)
         THEN TargetOf(props.animate).transition
         ELSE Undefined

C3_RootTransitionPrecedence ==
    (impl = "lib" /\ HandleReturned) =>
        created[1].kind = IF TypeIs(C3_ClaimedTransition, "tween") THEN "tween" ELSE "spring"

\* C4: attach raises InvalidTransitionKind exactly when a transition is supplied whose
\* discriminant is present and is neither "spring" nor "tween", and then before any
\* store is subscribed or style written; a transition that is absent or has no
\* discriminant is accepted and gives a spring.
C4_BadDiscriminant ==
    /\ props.transition # Undefined
    /\ "type" \in DOMAIN props.transition
    /\ props.transition.type \notin {"spring", "tween"}

C4_NoDiscriminant == props.transition = Undefined \/ "type" \notin DOMAIN props.transition

C4_InvalidTransitionKind ==
    pc # "unattached" =>
        /\ (error = InvalidTransitionKind) <=> C4_BadDiscriminant
        /\ C4_BadDiscriminant => (created = <<>> /\ style = {})
        /\ C4_NoDiscriminant => (created # <<>> /\ created[1].kind = "spring")

\* C5: the target of a marked descendant's store is the marker compensated against the
\* root target: rotate is marker.rotate minus the root's rotate (0 when unset), scale is
\* marker.scale minus the root's scale unless that is unset or 1, and x, y, opacity pass
\* through (the store's initial value where the marker does not set them).
C5_CompensatedTarget ==
    impl = "lib" =>
        \A k \in Descendants :
            LET m  == MarkerOf(node, created[k].node)
                rt == TargetOf(props.animate)
                c  == IF "scale" \notin DOMAIN rt \/ rt.scale = 1 THEN 0 ELSE rt.scale
                r  == IF "rotate" \notin DOMAIN rt THEN 0 ELSE rt.rotate
                t  == created[k].target
            IN /\ "scale" \in DOMAIN m => t.scale = m.scale - c
               /\ "rotate" \in DOMAIN m => t.rotate = m.rotate - r
               /\ t.x = IF "x" \in DOMAIN m THEN m.x ELSE Defaults.x
               /\ t.y = IF "y" \in DOMAIN m THEN m.y ELSE Defaults.y
               /\ t.opacity = Defaults.opacity

\* a marker with scale 2 under a root target of scale 1 was given scale 2
C5_Witness ==
    /\ impl = "lib"
    /\ NamesVariant(props.animate)
    /\ "scale" \in DOMAIN TargetOf(props.animate)
    /\ TargetOf(props.animate).scale = 1
    /\ \E k \in Descendants :
          /\ MarkerOf(node, created[k].node).scale = 2
          /\ created[k].target.scale = 2

\* C6: after attach with a variant-name target, the descendants that got a store are
\* exactly the marked nodes one or two levels below the root, one store each.
C6_PropagationDepth ==
    (impl = "lib" /\ HandleReturned /\ IsString(props.animate)) =>
        /\ {created[k].node : k \in Descendants} = MarkedNear(node)
        /\ Cardinality(Descendants) = Cardinality(MarkedNear(node))

\* a tree with a marked child, a marked grandchild under it and a marked node three
\* levels down was attached
C6_Witness ==
    /\ impl = "lib" /\ HandleReturned /\ IsString(props.animate)
    /\ \E q \in AllPaths(node) : Len(q) = 3 /\ Marked(node, q)
    /\ \E k \in Descendants : Len(created[k].node) = 1
    /\ \E k \in Descendants :
          Len(created[k].node) = 2 /\ Marked(node, SubSeq(created[k].node, 1, 1))

\* C7: update changes the target of the root store only: with a variant name the root
\* is retargeted by the resolved variant and no descendant's target changes; with a
\* literal no store's target changes.
C7_UpdateRootOnlyStep ==
    (impl = "lib" /\ nUpdates' = nUpdates + 1) =>
        /\ DOMAIN created' = DOMAIN created
        /\ \A k \in Descendants : created'[k].target = created[k].target
        /\ ~IsString(newProps'.animate) => created'[1].target = created[1].target
        /\ NamesVariant(newProps'.animate) =>
              \A f \in Fields \cap DOMAIN TargetOf(newProps'.animate) :
                  created'[1].target[f] = TargetOf(newProps'.animate)[f]

C7_UpdateRootOnly == [][C7_UpdateRootOnlyStep]_vars

\* the root of an attachment with descendants was retargeted from "rest" to "grow"
C7_Witness ==
    /\ impl = "lib" /\ nUpdates = 1
    /\ props.animate = [name |-> "rest"]
    /\ newProps.animate = [name |-> "grow"]
    /\ Descendants # {}
    /\ created[1].target.scale = 3

\* C8: setting a target merges: a field the newest target omits keeps the value the
\* store's target had before the call (at attach, the store's initial value), in both
\* versions of the action; update does not touch the current value.
C8_NewestTarget(a) == IF NamesUnknown(a) THEN Undefined ELSE TargetOf(a)

C8_Omits(a, f) == C8_NewestTarget(a) = Undefined \/ f \notin DOMAIN C8_NewestTarget(a)

C8_MergeStep ==
    /\ (pc = "unattached" /\ created' # <<>>) =>
          \A f \in Fields : C8_Omits(props'.animate, f) => created'[1].target[f] = Defaults[f]
    /\ (nUpdates' = nUpdates + 1) =>
          /\ DOMAIN created' = DOMAIN created
          /\ \A k \in DOMAIN created :
                /\ created'[k].value = created[k].value
                /\ \A f \in Fields :
                      C8_Omits(newProps'.animate, f) =>
                          created'[k].target[f] = created[k].target[f]

C8_TargetIsMerged == [][C8_MergeStep]_vars

\* after reaching {x: 1, y: 1} the root was retargeted by {x: 2}: y is still 1
C8_Witness ==
    /\ nUpdates = 1
    /\ props.animate = [x |-> 1, y |-> 1]
    /\ newProps.animate = [x |-> 2]
    /\ created[1].value.x = 1 /\ created[1].value.y = 1
    /\ created[1].target.x = 2 /\ created[1].target.y = 1

\* C9: every field of the target and of the value of every store is a finite number.
C9_FieldsFinite ==
    \A k \in DOMAIN created : \A f \in Fields :
        ~IsNaN(created[k].target[f]) /\ ~IsNaN(created[k].value[f])

\* C10 as stated: with a literal root target too, every marked child and grandchild
\* gets its own store and style subscription.
C10_LiteralPropagates ==
    (impl = "lib" /\ HandleReturned /\ ~IsString(props.animate)) =>
        {created[k].node : k \in Descendants} = MarkedNear(node)

\* C10 as amended: with a literal root target only the root gets a store and a style
\* subscription; no descendant gets one.
C10_LiteralRootOnly ==
    (impl = "lib" /\ HandleReturned /\ ~IsString(props.animate)) =>
        /\ Len(created) = 1
        /\ created[1].node = <<>>
        /\ \A w \in style : w.node = <<>>

\* a literal target was attached to a root with marked descendants
C10_Witness ==
    /\ impl = "lib" /\ HandleReturned /\ ~IsString(props.animate)
    /\ MarkedNear(node) # {}
    /\ Len(created) = 1

====
